---- MODULE Spec2Model ----
(***************************************************************************)
(* A model of package retry (src/retry/retry.go): the retry loops Do and   *)
(* DoWithNotify, the backoff formula calculateBackoff, and the classifiers *)
(* IsRetryable and IsRetryableHTTPStatus.                                  *)
(*                                                                         *)
(* Four specifications share the variables:                                *)
(*   Spec          one call of Do / DoWithNotify, with its environment     *)
(*                 (the operation's results, the timer, the context)       *)
(*   SpecClassify  IsRetryable applied to an error chain                   *)
(*   SpecStatus    IsRetryableHTTPStatus applied to a status code          *)
(*   SpecBackoff   calculateBackoff applied to (attempt, config, draw)     *)
(***************************************************************************)
EXTENDS Integers, Sequences, FiniteSets, TLC

VARIABLES
    pc,          \* position of the call: "loop", "select", "blocked", "done"; "call"/"returned" for the pure functions
    fn,          \* which function runs: "Do", "DoWithNotify", "IsRetryable", ...
    notify,      \* DoWithNotify: TRUE when the notify callback is non-nil
    config,      \* the Config value of the call
    attempt,     \* the loop variable of Do / DoWithNotify
    lastErr,     \* var lastErr error (<<>> is nil)
    results,     \* what the operation returned, invocation by invocation
    waits,       \* the backoffs computed, one per select entered
    notifyLog,   \* the <<err, backoff>> pairs handed to notify
    timerFired,  \* the channel of time.After(backOff) has its value
    cancelled,   \* ctx.Done() is closed
    cancelAt,    \* where the call was when ctx.Done() closed: <<pc, invocations, timerFired>>
    ctxErr,      \* ctx.Err(): <<>> until ctx.Done() is closed, then the cause
    ret,         \* the value returned by Do / DoWithNotify
    arg,         \* the argument of the pure function under SpecClassify/SpecStatus/SpecBackoff
    out,         \* its result
    twin         \* the call of DoWithNotify(ctx, config, op, nil) run beside a call of Do

vars == <<pc, fn, notify, config, attempt, lastErr, results, waits, notifyLog,
          timerFired, cancelled, cancelAt, ctxErr, ret, arg, out, twin>>

runVars == <<fn, notify, config, attempt, lastErr, results, waits, notifyLog,
             timerFired, cancelled, cancelAt, ctxErr, ret, twin>>

(***************************************************************************)
(* Bounds of the model.                                                    *)
(***************************************************************************)
MaxChain == 3          \* longest error chain (Unwrap depth) drawn
MaxStatusCode == 599   \* status codes are drawn from -MaxStatusCode..MaxStatusCode
MaxMaxRetries == 3     \* Config.MaxRetries is drawn from -1..MaxMaxRetries
MaxDuration == 2       \* InitialBackoff, MaxBackoff are drawn from 0..MaxDuration (ns)
MaxAttemptIndex == 3   \* attempt indexes drawn for calculateBackoff, besides the overflowing ones

(***************************************************************************)
(* Errors.  An error is the sequence of the nodes of its Unwrap chain,     *)
(* outermost first; <<>> is nil.  A node records its dynamic type and what *)
(* its Timeout() and Temporary() methods return when it has them.          *)
(***************************************************************************)
Node(type, timeout, temporary, errno) ==
    [type |-> type, timeout |-> timeout, temporary |-> temporary, errno |-> errno]

Canceled == Node("context.Canceled", FALSE, FALSE, "")
\* context.DeadlineExceeded is a deadlineExceededError: Timeout() and Temporary() are true
DeadlineExceeded == Node("context.DeadlineExceeded", TRUE, TRUE, "")
RetryableError == Node("RetryableError", FALSE, FALSE, "")
WrapError == Node("fmt.wrapError", FALSE, FALSE, "")
Opaque == Node("errors.errorString", FALSE, FALSE, "")
NetError(timeout, temporary) == Node("net.Error", timeout, temporary, "")
\* syscall.Errno has Timeout() (EAGAIN, EWOULDBLOCK, ETIMEDOUT) and
\* Temporary() (EINTR, EMFILE, ENFILE, or Timeout()).
Errno(e) == Node("syscall.Errno", e = "ETIMEDOUT", e \in {"ETIMEDOUT", "EINTR"}, e)

Errnos == {"ECONNREFUSED", "ECONNRESET", "ETIMEDOUT", "EPIPE"}
NetErrors == {NetError(t, p) : t \in BOOLEAN, p \in BOOLEAN}
Wrappers == {RetryableError, WrapError} \cup NetErrors
Leaves == {Canceled, DeadlineExceeded, Opaque, RetryableError}
              \cup NetErrors \cup {Errno(e) : e \in Errnos}

\* the error chains of at most n nodes: wrappers around one last node
RECURSIVE Chains(_)
Chains(n) ==
    IF n <= 1 THEN {<<l>> : l \in Leaves}
    ELSE LET shorter == Chains(n - 1)
         IN  shorter \cup {<<w>> \o c : w \in Wrappers, c \in shorter}

Errors == Chains(MaxChain)

\* errors.Is(err, target) for a sentinel target: some node of the chain is the target
ErrorsIs(err, target) == \E i \in 1..Len(err) : err[i] = target

\* errors.As(err, &target): the index of the first node of the chain whose type
\* is assignable to the target's type (one of `types`), 0 when there is none
FirstIndex(err, types) ==
    IF \E i \in 1..Len(err) : err[i].type \in types
    THEN CHOOSE i \in 1..Len(err) :
             err[i].type \in types /\ \A j \in 1..(i - 1) : err[j].type \notin types
    ELSE 0

\* var retryableErr RetryableError
RetryableErrorTypes == {"RetryableError"}
\* var netErr net.Error: the types with Error(), Timeout() and Temporary()
NetErrorTypes == {"net.Error", "syscall.Errno", "context.DeadlineExceeded"}
\* var syscallErr syscall.Errno
ErrnoTypes == {"syscall.Errno"}

\* IsRetryable with the net.Error rule tried before the RetryableError rule
IsRetryable_NetErrorFirst(err) ==
    IF ErrorsIs(err, Canceled) THEN FALSE
    ELSE IF FirstIndex(err, NetErrorTypes) # 0
         THEN LET netErr == err[FirstIndex(err, NetErrorTypes)]
              IN  netErr.temporary \/ netErr.timeout
    ELSE FirstIndex(err, RetryableErrorTypes) # 0

IsRetryable(err) ==
    IF ErrorsIs(err, Canceled) THEN FALSE
    ELSE IF FirstIndex(err, RetryableErrorTypes) # 0 THEN TRUE
    ELSE IF FirstIndex(err, NetErrorTypes) # 0
         THEN LET netErr == err[FirstIndex(err, NetErrorTypes)]
              IN  netErr.temporary \/ netErr.timeout
    ELSE IF FirstIndex(err, ErrnoTypes) # 0
         THEN LET syscallErr == err[FirstIndex(err, ErrnoTypes)]
              IN  syscallErr.errno = "ECONNREFUSED" \/ syscallErr.errno = "ECONNRESET"
    ELSE FALSE

(***************************************************************************)
(* HTTP status codes (net/http constants named in the switch).             *)
(***************************************************************************)
StatusRequestTimeout == 408
StatusTooManyRequests == 429
StatusInternalServerError == 500
StatusBadGateway == 502
StatusServiceUnavailable == 503
StatusGatewayTimeout == 504

\* IsRetryableHTTPStatus with every 5xx status retryable
IsRetryableHTTPStatus_All5xx(statusCode) ==
    statusCode \in {StatusRequestTimeout, StatusTooManyRequests} \/ statusCode >= 500

IsRetryableHTTPStatus(statusCode) ==
    CASE statusCode = StatusRequestTimeout -> TRUE
      [] statusCode = StatusTooManyRequests -> TRUE
      [] statusCode = StatusInternalServerError -> TRUE
      [] statusCode = StatusBadGateway -> TRUE
      [] statusCode = StatusServiceUnavailable -> TRUE
      [] statusCode = StatusGatewayTimeout -> TRUE
      [] OTHER -> FALSE

(***************************************************************************)
(* The pure functions as state machines: the argument is drawn in Init,    *)
(* the one action applies the function.                                    *)
(***************************************************************************)
\* the value Do / DoWithNotify returns: fmt.Errorf(msg + ": %w", err), or nil
Return(msg, err) == [msg |-> msg, err |-> err]
NoReturn == Return("(running)", <<>>)
ReturnNil == Return("nil", <<>>)

\* no second call runs
NoTwin == <<>>

NoConfig == [MaxRetries |-> 0, InitialBackoff |-> 0, MaxBackoff |-> 0,
             BackoffFactor |-> <<1, 1>>, JitterFactor |-> <<0, 1>>]

IdleRun(f) ==
    /\ fn = f
    /\ notify = FALSE
    /\ config = NoConfig
    /\ attempt = 0
    /\ lastErr = <<>>
    /\ results = <<>>
    /\ waits = <<>>
    /\ notifyLog = <<>>
    /\ timerFired = FALSE
    /\ cancelled = FALSE
    /\ cancelAt = <<>>
    /\ ctxErr = <<>>
    /\ ret = NoReturn
    /\ twin = NoTwin

InitClassify ==
    /\ IdleRun("IsRetryable")
    /\ pc = "call"
    /\ arg \in Errors
    /\ out = "none"

CallIsRetryable ==
    /\ fn = "IsRetryable"
    /\ pc = "call"
    /\ out' = IsRetryable(arg)
    /\ pc' = "returned"
    /\ UNCHANGED <<arg, runVars>>

SpecClassify == InitClassify /\ [][CallIsRetryable]_vars

InitStatus ==
    /\ IdleRun("IsRetryableHTTPStatus")
    /\ pc = "call"
    /\ arg \in (-MaxStatusCode)..MaxStatusCode
    /\ out = "none"

CallIsRetryableHTTPStatus ==
    /\ fn = "IsRetryableHTTPStatus"
    /\ pc = "call"
    /\ out' = IsRetryableHTTPStatus(arg)
    /\ pc' = "returned"
    /\ UNCHANGED <<arg, runVars>>

SpecStatus == InitStatus /\ [][CallIsRetryableHTTPStatus]_vars

(***************************************************************************)
(* float64 values, as far as calculateBackoff needs them: a finite value   *)
(* is the exact fraction n/d (the values drawn are small dyadic rationals, *)
(* which float64 holds exactly), besides +Inf and NaN.                     *)
(***************************************************************************)
Fin(n, d) == [cls |-> "fin", n |-> n, d |-> d]
PosInf == [cls |-> "inf", n |-> 1, d |-> 1]
NaN == [cls |-> "nan", n |-> 0, d |-> 1]

\* float64(x) of an integer x
Float(x) == Fin(x, 1)

\* a * b: 0 * Inf is NaN
FMul(a, b) ==
    IF a.cls = "nan" \/ b.cls = "nan" THEN NaN
    ELSE IF a.cls = "inf" \/ b.cls = "inf"
         THEN IF (a.cls = "fin" /\ a.n = 0) \/ (b.cls = "fin" /\ b.n = 0)
              THEN NaN ELSE PosInf
    ELSE Fin(a.n * b.n, a.d * b.d)

FAdd(a, b) ==
    IF a.cls = "nan" \/ b.cls = "nan" THEN NaN
    ELSE IF a.cls = "inf" \/ b.cls = "inf" THEN PosInf
    ELSE Fin(a.n * b.d + b.n * a.d, a.d * b.d)

\* a > b: every comparison with NaN is false
FGt(a, b) ==
    IF a.cls = "nan" \/ b.cls = "nan" THEN FALSE
    ELSE IF a.cls = "inf" THEN b.cls = "fin"
    ELSE IF b.cls = "inf" THEN FALSE
    ELSE a.n * b.d > b.n * a.d

FLt(a, b) == FGt(b, a)

\* x^n of a natural n
RECURSIVE IntPow(_, _)
IntPow(x, n) == IF n = 0 THEN 1 ELSE x * IntPow(x, n - 1)

\* the least y at which math.Pow(x, y) is +Inf: 2^1024 and 1.5^1751 are the
\* first powers above the largest float64
Pow2OverflowsAt == 1024
Pow3HalvesOverflowsAt == 1751
PowOverflowsAt(x) ==
    CASE x = <<2, 1>> -> Pow2OverflowsAt
      [] x = <<3, 2>> -> Pow3HalvesOverflowsAt

\* math.Pow(x, float64(y)) for x >= 1 given as the fraction <<n, d>>, and y >= 0
Pow(x, y) ==
    IF x[1] = x[2] THEN Fin(1, 1)
    ELSE IF y >= PowOverflowsAt(x) THEN PosInf
    ELSE Fin(IntPow(x[1], y), IntPow(x[2], y))

\* The least Duration.  time.Duration is an int64; TLC's integers have 32 bits,
\* so the model's Duration is the 32-bit integer and this is its least value.
MinDuration == -2147483647 - 1

\* time.Duration(f): the outcomes of the conversion.  A finite value in range is
\* truncated toward zero.  The conversion of a value the type cannot represent
\* (NaN, +Inf) is implementation-dependent: 0 on arm64, the least integer on amd64.
ToDuration(f) ==
    IF f.cls = "fin"
    THEN {IF f.n >= 0 THEN f.n \div f.d ELSE -((-f.n) \div f.d)}
    ELSE {0, MinDuration}

\* rand.Float64() - 0.5 lies in [-0.5, 0.5): the draws of the model
JitterDraws == {<<-1, 2>>, <<-1, 4>>, <<0, 1>>, <<1, 4>>}

\* calculateBackoff(attempt, config) with the jitter draw u = rand.Float64() - 0.5:
\* the set of durations the call can return
calculateBackoff(attemptIdx, cfg, u) ==
    LET raw == FMul(Float(cfg.InitialBackoff),
                    Pow(cfg.BackoffFactor, attemptIdx))
        capped == IF FGt(raw, Float(cfg.MaxBackoff))
                  THEN Float(cfg.MaxBackoff) ELSE raw
        jitter == FMul(FMul(Fin(u[1], u[2]),
                            Fin(cfg.JitterFactor[1], cfg.JitterFactor[2])),
                       capped)
        finalBackoff == FAdd(capped, jitter)
        floored == IF FLt(finalBackoff, Float(0)) THEN Float(0) ELSE finalBackoff
    IN  ToDuration(floored)

\* the policies drawn: growth factors 1, 1.5, 2; jitter factors 0, 0.5, 1
BackoffFactors == {<<1, 1>>, <<3, 2>>, <<2, 1>>}
JitterFactors == {<<0, 1>>, <<1, 2>>, <<1, 1>>}
Durations == 0..MaxDuration

\* the attempt indexes drawn for a growth factor: the small ones, and the first
\* one at which the power overflows
AttemptIndexes(factor) ==
    (0..MaxAttemptIndex)
        \cup (IF factor = <<1, 1>> THEN {} ELSE {PowOverflowsAt(factor)})

BackoffConfigs ==
    {[MaxRetries |-> 0, InitialBackoff |-> i, MaxBackoff |-> m,
      BackoffFactor |-> f, JitterFactor |-> j] :
        i \in Durations, m \in Durations, f \in BackoffFactors, j \in JitterFactors}

InitBackoff ==
    /\ IdleRun("calculateBackoff")
    /\ pc = "call"
    /\ \E c \in BackoffConfigs, u \in JitterDraws :
         /\ c.InitialBackoff <= c.MaxBackoff
         /\ \E a \in AttemptIndexes(c.BackoffFactor) :
              arg = [attempt |-> a, config |-> c, u |-> u]
    /\ out = "none"

CallCalculateBackoff ==
    /\ fn = "calculateBackoff"
    /\ pc = "call"
    /\ out' \in calculateBackoff(arg.attempt, arg.config, arg.u)
    /\ pc' = "returned"
    /\ UNCHANGED <<arg, runVars>>

SpecBackoff == InitBackoff /\ [][CallCalculateBackoff]_vars

(***************************************************************************)
(* One call of Do or DoWithNotify.                                         *)
(***************************************************************************)
\* what the operation can return: nil, two errors IsRetryable accepts, two it rejects
OpNil == <<>>
OpMarked == <<RetryableError, Opaque>>
OpTimeout == <<NetError(TRUE, FALSE)>>
OpFatal == <<Opaque>>
OpMarkedCanceled == <<RetryableError, Canceled>>
OpResults == {OpNil, OpMarked, OpTimeout, OpFatal, OpMarkedCanceled}

\* The configs of the calls: every InitialBackoff up to a MaxBackoff of
\* MaxDuration, which the growing backoffs reach and are clamped to.
RunConfigs ==
    {[MaxRetries |-> r, InitialBackoff |-> i, MaxBackoff |-> MaxDuration,
      BackoffFactor |-> f, JitterFactor |-> j] :
        r \in -1..MaxMaxRetries, i \in Durations,
        f \in {<<3, 2>>, <<2, 1>>}, j \in {<<0, 1>>, <<1, 1>>}}

\* the number of invocations of the operation so far
Invocations == Len(results)

InitRun ==
    /\ pc = "loop"
    /\ fn \in {"Do", "DoWithNotify"}
    /\ notify \in BOOLEAN
    /\ fn = "Do" => notify = FALSE
    /\ config \in RunConfigs
    /\ config.InitialBackoff <= config.MaxBackoff
    /\ attempt = 0
    /\ lastErr = <<>>
    /\ results = <<>>
    /\ waits = <<>>
    /\ notifyLog = <<>>
    /\ timerFired = FALSE
    /\ cancelled = FALSE
    /\ cancelAt = <<>>
    /\ ctxErr = <<>>
    /\ ret = NoReturn
    /\ arg = <<>>
    /\ out = "none"

Init == InitRun /\ twin = NoTwin

\* the loop condition off by one, either way
LoopCond_OneShort(a, cfg) == a < cfg.MaxRetries - 1
LoopCond_Inclusive(a, cfg) == a <= cfg.MaxRetries

\* the loop condition: attempt < config.MaxRetries
LoopCond(a, cfg) == a < cfg.MaxRetries

\* the loop body without the IsRetryable check
AfterOperation_NoClassifier(err, a, cfg) ==
    IF err = <<>> THEN "return nil"
    ELSE IF a = cfg.MaxRetries THEN "break"
    ELSE "backoff"

\* what the loop body does with the operation's result, up to the backoff
AfterOperation(err, a, cfg) ==
    IF err = <<>> THEN "return nil"
    ELSE IF ~IsRetryable(err) THEN "return not retryable"
    ELSE IF a = cfg.MaxRetries THEN "break"
    ELSE "backoff"

\* a notification that passes config.InitialBackoff, not the computed backoff
Notified_InitialBackoff(log, err, b) ==
    IF fn = "DoWithNotify" /\ notify
    THEN Append(log, <<err, config.InitialBackoff>>)
    ELSE log

\* notify(lastErr, backoff), when DoWithNotify was given a callback
Notified(log, err, b) ==
    IF fn = "DoWithNotify" /\ notify THEN Append(log, <<err, b>>) ELSE log

\* One pass of the loop body: the operation is invoked and returns err; the call
\* returns (nil, not retryable, or by the break), or computes the backoff,
\* notifies and enters the select.
InvokeStep ==
    /\ fn \in {"Do", "DoWithNotify"}
    /\ pc = "loop"
    /\ LoopCond(attempt, config)
    /\ \E err \in OpResults :
         /\ lastErr' = err
         /\ results' = Append(results, err)
         /\ LET next == AfterOperation(err, attempt, config)
            IN  IF next = "backoff"
                THEN \E u \in JitterDraws :
                       \E b \in calculateBackoff(attempt, config, u) :
                         /\ waits' = Append(waits, b)
                         /\ notifyLog' = Notified(notifyLog, err, b)
                         /\ timerFired' = FALSE
                         /\ pc' = "select"
                         /\ ret' = ret
                ELSE /\ pc' = "done"
                     /\ ret' = CASE next = "return nil" -> ReturnNil
                                 [] next = "return not retryable" ->
                                        Return("not retryable error", err)
                                 [] OTHER -> Return("retries exceeded", err)
                     /\ UNCHANGED <<waits, notifyLog, timerFired>>
    /\ UNCHANGED <<fn, notify, config, attempt, cancelled, cancelAt, ctxErr, arg, out>>

Invoke == InvokeStep /\ UNCHANGED twin

\* a select whose timer case can always proceed (the backoff is not awaited)
SelectReady_NoWait(fired, done) ==
    {"time.After"} \cup (IF done THEN {"ctx.Done"} ELSE {})

\* the cases of the select that can proceed
SelectReady(fired, done) ==
    (IF fired THEN {"time.After"} ELSE {}) \cup (IF done THEN {"ctx.Done"} ELSE {})

\* a select that sleeps again when its timer fires
Proceed_LostWakeup(c) ==
    IF c = "ctx.Done"
    THEN /\ ret' = Return("timed out", lastErr)
         /\ pc' = "done"
         /\ attempt' = attempt
    ELSE /\ attempt' = attempt
         /\ pc' = "blocked"
         /\ ret' = ret

\* a select whose context case wraps the first attempt's error
Proceed_WrapsFirstError(c) ==
    IF c = "ctx.Done"
    THEN /\ ret' = Return("timed out", results[1])
         /\ pc' = "done"
         /\ attempt' = attempt
    ELSE /\ attempt' = attempt + 1
         /\ pc' = "loop"
         /\ ret' = ret

\* The select leaves by case c: the timer's case ends the loop body (attempt++),
\* the context's case returns "timed out".
Proceed(c) ==
    IF c = "ctx.Done"
    THEN /\ ret' = Return("timed out", lastErr)
         /\ pc' = "done"
         /\ attempt' = attempt
    ELSE /\ attempt' = attempt + 1
         /\ pc' = "loop"
         /\ ret' = ret

\* The select is entered: one of the cases that can proceed is chosen; when none
\* can, the goroutine blocks until the timer fires or the context is done.
SelectStep ==
    /\ pc = "select"
    /\ IF SelectReady(timerFired, cancelled) = {}
       THEN /\ pc' = "blocked"
            /\ UNCHANGED <<attempt, ret>>
       ELSE \E c \in SelectReady(timerFired, cancelled) : Proceed(c)
    /\ UNCHANGED <<fn, notify, config, lastErr, results, waits, notifyLog,
                   timerFired, cancelled, cancelAt, ctxErr, arg, out>>

Select == SelectStep /\ UNCHANGED twin

\* The loop condition fails: the return after the loop.
LoopExitStep ==
    /\ fn \in {"Do", "DoWithNotify"}
    /\ pc = "loop"
    /\ ~LoopCond(attempt, config)
    /\ ret' = Return("retries exceeded", lastErr)
    /\ pc' = "done"
    /\ UNCHANGED <<fn, notify, config, attempt, lastErr, results, waits, notifyLog,
                   timerFired, cancelled, cancelAt, ctxErr, arg, out>>

LoopExit == LoopExitStep /\ UNCHANGED twin

\* The environment: the timer of time.After(backOff) fires.  A goroutine blocked
\* in the select is the receiver: it leaves the select by the timer's case.
TimerFireStep ==
    /\ pc \in {"select", "blocked"}
    /\ ~timerFired
    /\ timerFired' = TRUE
    /\ IF pc = "blocked" THEN Proceed("time.After") ELSE UNCHANGED <<pc, attempt, ret>>
    /\ UNCHANGED <<fn, notify, config, lastErr, results, waits,
                   notifyLog, cancelled, cancelAt, ctxErr, arg, out>>

TimerFire == TimerFireStep /\ UNCHANGED twin

\* ctx.Err() once ctx.Done() is closed
CtxErrs == {<<Canceled>>, <<DeadlineExceeded>>}

\* The environment: the caller's context is cancelled or expires, at any moment
\* of the call (before the first invocation included).  A goroutine blocked in
\* the select leaves it by the context's case.
CancelStep ==
    /\ pc \in {"loop", "select", "blocked"}
    /\ ~cancelled
    /\ cancelled' = TRUE
    /\ ctxErr' \in CtxErrs
    /\ cancelAt' = <<pc, Invocations, timerFired>>
    /\ IF pc = "blocked" THEN Proceed("ctx.Done") ELSE UNCHANGED <<pc, attempt, ret>>
    /\ UNCHANGED <<fn, notify, config, lastErr, results, waits,
                   notifyLog, timerFired, arg, out>>

Cancel == CancelStep /\ UNCHANGED twin

Next == Invoke \/ Select \/ LoopExit \/ TimerFire \/ Cancel

Spec == Init /\ [][Next]_vars

\* Every invocation of the operation returns, every timer fires, and the
\* goroutine of the call is scheduled; the context need never fire.
FairSpec ==
    /\ Spec
    /\ WF_vars(Invoke)
    /\ WF_vars(TimerFire)
    /\ WF_vars(Select)
    /\ WF_vars(LoopExit)

(***************************************************************************)
(* Do beside DoWithNotify with a nil callback.  The variables of the call  *)
(* hold the call of Do; twin holds the call of DoWithNotify(ctx, config,   *)
(* operation, nil), translated from DoWithNotify's own lines.  The two     *)
(* calls get the same config, the same results of the operation, the same  *)
(* jitter draws, the same timer and context events and the same choice in  *)
(* a select with both cases ready.                                         *)
(***************************************************************************)
\* DoWithNotify at its first statement
TwinStart ==
    [pc |-> "loop", attempt |-> 0, lastErr |-> <<>>, results |-> <<>>,
     waits |-> <<>>, notifyLog |-> <<>>, ret |-> NoReturn]

\* the loop condition of DoWithNotify: attempt < config.MaxRetries
DoWithNotify_LoopCond(a, cfg) == a < cfg.MaxRetries

\* what the loop body of DoWithNotify does with the operation's result
DoWithNotify_AfterOperation(err, a, cfg) ==
    IF err = <<>> THEN "return nil"
    ELSE IF ~IsRetryable(err) THEN "return not retryable"
    ELSE IF a = cfg.MaxRetries THEN "break"
    ELSE "backoff"

\* if notify != nil { notify(lastErr, backoff) }
DoWithNotify_Notified(log, nf, err, b) ==
    IF nf THEN Append(log, <<err, b>>) ELSE log

\* the return after the loop of DoWithNotify
DoWithNotify_LoopExit(t) ==
    [t EXCEPT !.ret = Return("retries exceeded", t.lastErr), !.pc = "done"]

\* One pass of DoWithNotify from the head of its loop, the operation returning
\* err and the jitter draw being u: the states it can be in afterwards.
DoWithNotify_Loop(t, cfg, nf, err, u) ==
    IF ~DoWithNotify_LoopCond(t.attempt, cfg) THEN {DoWithNotify_LoopExit(t)}
    ELSE LET next == DoWithNotify_AfterOperation(err, t.attempt, cfg)
             t1 == [t EXCEPT !.lastErr = err, !.results = Append(@, err)]
         IN  IF next = "backoff"
             THEN {[t1 EXCEPT !.waits = Append(@, b),
                              !.notifyLog = DoWithNotify_Notified(@, nf, err, b),
                              !.pc = "select"] :
                      b \in calculateBackoff(t.attempt, cfg, u)}
             ELSE {[t1 EXCEPT !.pc = "done",
                              !.ret = CASE next = "return nil" -> ReturnNil
                                        [] next = "return not retryable" ->
                                               Return("not retryable error", err)
                                        [] OTHER -> Return("retries exceeded", err)]}

\* the select of DoWithNotify leaves by case c
DoWithNotify_Proceed(t, c) ==
    IF c = "ctx.Done"
    THEN [t EXCEPT !.ret = Return("timed out", t.lastErr), !.pc = "done"]
    ELSE [t EXCEPT !.attempt = @ + 1, !.pc = "loop"]

\* a timer or context event reaches DoWithNotify: it wakes a blocked select
DoWithNotify_Wake(t, c) ==
    IF t.pc = "blocked" THEN DoWithNotify_Proceed(t, c) ELSE t

InitPair == InitRun /\ fn = "Do" /\ twin = TwinStart

\* the jitter draws that give Do the backoff it has just recorded
DrawsOfStep ==
    IF pc' = "select"
    THEN {u \in JitterDraws : waits'[Len(waits')] \in calculateBackoff(attempt, config, u)}
    ELSE JitterDraws

\* both calls run a pass of their loop on the same result and the same draw
PairInvoke ==
    /\ InvokeStep
    /\ \E u \in DrawsOfStep : twin' \in DoWithNotify_Loop(twin, config, FALSE, lastErr', u)

\* Do leaves its loop; DoWithNotify runs its own loop head
PairLoopExit ==
    /\ LoopExitStep
    /\ \E err \in OpResults, u \in JitterDraws :
          twin' \in DoWithNotify_Loop(twin, config, FALSE, err, u)

\* both selects are evaluated, with the same choice among the ready cases
PairSelect ==
    /\ SelectStep
    /\ twin' = IF pc' = "blocked" THEN [twin EXCEPT !.pc = "blocked"]
               ELSE DoWithNotify_Proceed(twin, IF pc' = "done" THEN "ctx.Done"
                                                ELSE "time.After")

PairTimerFire == TimerFireStep /\ twin' = DoWithNotify_Wake(twin, "time.After")

PairCancel == CancelStep /\ twin' = DoWithNotify_Wake(twin, "ctx.Done")

NextPair == PairInvoke \/ PairSelect \/ PairLoopExit \/ PairTimerFire \/ PairCancel

SpecPair == InitPair /\ [][NextPair]_vars

(***************************************************************************)
(* Properties of one call of Do / DoWithNotify (under Spec).               *)
(***************************************************************************)
Running == fn \in {"Do", "DoWithNotify"}

\* the operation failed with an error IsRetryable accepts
RetryableFailure(err) == err # OpNil /\ IsRetryable(err)

\* the operation has failed retryably on every call so far
AllRetryableFailures == \A j \in 1..Len(results) : RetryableFailure(results[j])

IsSuccess(r) == r = ReturnNil
IsNonRetryable(r) == r.msg = "not retryable error"
IsExhausted(r) == r.msg = "retries exceeded"
IsCancelled(r) == r.msg = "timed out"

\* C1: with MaxRetries >= 1 and a context that never fires, an operation that
\* fails retryably on its first K-1 calls and succeeds on its K-th
\* (K <= MaxRetries) makes the call return nil right after the K-th invocation:
\* the success is the last invocation, and the call does not end before it.
C1_SuccessOnKthCall ==
    (Running /\ ~cancelled /\ config.MaxRetries >= 1) =>
        /\ \A k \in 1..Len(results) :
             (results[k] = OpNil /\ \A j \in 1..(k - 1) : RetryableFailure(results[j]))
                 => /\ k = Len(results)
                    /\ k <= config.MaxRetries
                    /\ pc = "done"
                    /\ ret = ReturnNil
        /\ (AllRetryableFailures /\ Len(results) < config.MaxRetries) => pc # "done"

C1_Witness ==
    /\ Running /\ ~cancelled /\ pc = "done"
    /\ config.MaxRetries = 3
    /\ Len(results) = 3
    /\ RetryableFailure(results[1]) /\ RetryableFailure(results[2])
    /\ results[3] = OpNil
    /\ ret = ReturnNil

\* C2: with MaxRetries >= 1 and a context that never fires, an operation that
\* fails retryably on every call is invoked at most MaxRetries times, and the call
\* returns "retries exceeded" after exactly MaxRetries invocations.
C2_ExhaustedAfterMaxRetries ==
    (Running /\ ~cancelled /\ config.MaxRetries >= 1 /\ AllRetryableFailures) =>
        /\ Invocations <= config.MaxRetries
        /\ pc = "done" => (IsExhausted(ret) /\ Invocations = config.MaxRetries)

C2_Witness ==
    /\ Running /\ ~cancelled /\ pc = "done"
    /\ config.MaxRetries = 3
    /\ AllRetryableFailures
    /\ Invocations = 3
    /\ IsExhausted(ret)

\* C3: an invocation that returns an error IsRetryable rejects is the last one:
\* the call has returned "not retryable error" wrapping that error, and no backoff
\* was computed, no notify ran and no wait was entered for it (so a rejected
\* first error ends the call after 1 invocation, whatever MaxRetries is).
C3_NonRetryableReturnsAtOnce ==
    Running =>
        \A k \in 1..Len(results) :
            (results[k] # OpNil /\ ~IsRetryable(results[k]))
                => /\ k = Len(results)
                   /\ pc = "done"
                   /\ ret = Return("not retryable error", results[k])
                   /\ Len(waits) = k - 1
                   /\ Len(notifyLog) <= k - 1

C3_Witness ==
    /\ fn = "DoWithNotify" /\ notify /\ pc = "done"
    /\ config.MaxRetries = 3
    /\ results = <<OpMarked, OpFatal>>
    /\ IsNonRetryable(ret)
    /\ Len(notifyLog) = 1

\* C4: when the context fires while the call waits after the N-th failed
\* attempt and the timer of that wait has not fired, the call returns "timed out"
\* wrapping the last error with exactly the N invocations made so far: a call
\* blocked in the select when the context fired has returned so, and every
\* select left with the context done and the timer not fired is left so.
InWait == pc \in {"select", "blocked"}

C4_CancelDuringWait ==
    /\ []((Running /\ cancelAt # <<>> /\ cancelAt[1] = "blocked")
             => /\ pc = "done"
                /\ ret = Return("timed out", lastErr)
                /\ Invocations = cancelAt[2])
    /\ [][(InWait /\ cancelled' /\ ~timerFired' /\ ~InWait')
             => /\ pc' = "done"
                /\ ret' = Return("timed out", lastErr)
                /\ results' = results]_vars

C4_Witness ==
    /\ Running /\ pc = "done"
    /\ cancelAt = <<"blocked", 2, FALSE>>
    /\ IsCancelled(ret)
    /\ Invocations = 2
    /\ config.MaxRetries = 3

\* C5: the operation is never invoked more than MaxRetries times, a call that
\* has not returned has no result, and a call that has returned has exactly one
\* of the four outcomes nil, not retryable, retries exceeded, timed out.
C5_BoundedAndOneOutcome ==
    Running =>
        /\ config.MaxRetries >= 0 => Invocations <= config.MaxRetries
        /\ pc # "done" => ret = NoReturn
        /\ pc = "done" =>
             Cardinality({o \in {"success", "non-retryable", "exhausted", "cancelled"} :
                 \/ o = "success" /\ IsSuccess(ret)
                 \/ o = "non-retryable" /\ IsNonRetryable(ret)
                 \/ o = "exhausted" /\ IsExhausted(ret)
                 \/ o = "cancelled" /\ IsCancelled(ret)}) = 1

C5_Witness ==
    /\ Running /\ pc = "done"
    /\ config.MaxRetries = 3
    /\ Invocations = 3
    /\ IsCancelled(ret)

(***************************************************************************)
(* Properties of IsRetryable (under SpecClassify).                         *)
(***************************************************************************)
Classified == fn = "IsRetryable" /\ pc = "returned"

HasMarker(err) == \E i \in 1..Len(err) : err[i].type = "RetryableError"
HasConnErrno(err) ==
    \E i \in 1..Len(err) : err[i] \in {Errno("ECONNREFUSED"), Errno("ECONNRESET")}

\* C6: IsRetryable is false for every error that is or wraps context.Canceled
\* or context.DeadlineExceeded, whatever else the chain holds.
C6_CancellationNotRetryable ==
    (Classified /\ (ErrorsIs(arg, Canceled) \/ ErrorsIs(arg, DeadlineExceeded)))
        => out = FALSE

\* C7: IsRetryable is true for every error whose chain holds a RetryableError
\* and that the cancellation rule (errors.Is(err, context.Canceled)) does not
\* match, whatever the cause under the marker.
C7_MarkerIsRetryable ==
    (Classified /\ HasMarker(arg) /\ ~ErrorsIs(arg, Canceled)) => out = TRUE

C7_Witness ==
    /\ Classified
    /\ arg = <<WrapError, RetryableError, NetError(FALSE, FALSE)>>
    /\ out = TRUE

\* C8: IsRetryable is true for every unmarked, non-cancellation error that is
\* or wraps ECONNREFUSED or ECONNRESET, bare or inside a net.Error.
C8_ConnErrnoRetryable ==
    (/\ Classified
     /\ ~HasMarker(arg)
     /\ ~ErrorsIs(arg, Canceled) /\ ~ErrorsIs(arg, DeadlineExceeded)
     /\ HasConnErrno(arg)
     /\ \A i \in 1..Len(arg) :
            arg[i] \in {WrapError, NetError(FALSE, FALSE),
                        Errno("ECONNREFUSED"), Errno("ECONNRESET")})
        => out = TRUE

(***************************************************************************)
(* Property of IsRetryableHTTPStatus (under SpecStatus).                   *)
(***************************************************************************)
\* C9: for every status code, IsRetryableHTTPStatus is true exactly for 408, 429,
\* 500, 502, 503 and 504.
C9_RetryableStatusSet ==
    (fn = "IsRetryableHTTPStatus" /\ pc = "returned")
        => (out = TRUE <=> arg \in {408, 429, 500, 502, 503, 504})

C9_Witness ==
    /\ fn = "IsRetryableHTTPStatus" /\ pc = "returned"
    /\ arg = 429
    /\ out = TRUE

(***************************************************************************)
(* Property of calculateBackoff (under SpecBackoff).                       *)
(***************************************************************************)
Min(a, b) == IF a <= b THEN a ELSE b

\* min(InitialBackoff * BackoffFactor^attempt, MaxBackoff) as the fraction
\* <<n, d>>, in exact arithmetic.  At an index where the power overflows
\* float64 the product of a positive InitialBackoff is far above MaxBackoff.
ExactWait(attemptIdx, cfg) ==
    LET f == cfg.BackoffFactor
    IN  IF cfg.InitialBackoff = 0 THEN <<0, 1>>
        ELSE IF f[1] = f[2] THEN <<Min(cfg.InitialBackoff, cfg.MaxBackoff), 1>>
        ELSE IF attemptIdx >= PowOverflowsAt(f) THEN <<cfg.MaxBackoff, 1>>
        ELSE LET n == cfg.InitialBackoff * IntPow(f[1], attemptIdx)
                 d == IntPow(f[2], attemptIdx)
             IN  IF n > cfg.MaxBackoff * d THEN <<cfg.MaxBackoff, 1>> ELSE <<n, d>>

\* C10: with JitterFactor = 0, calculateBackoff(attempt, config) equals
\* min(InitialBackoff * BackoffFactor^attempt, MaxBackoff) exactly.
C10_ExactExponentialClamp ==
    (fn = "calculateBackoff" /\ pc = "returned" /\ arg.config.JitterFactor = <<0, 1>>)
        => LET w == ExactWait(arg.attempt, arg.config)
           IN  out * w[2] = w[1]

\* C11: calculateBackoff returns a duration >= 0 at every attempt index >= 0,
\* for every configuration (InitialBackoff >= 0, MaxBackoff >= InitialBackoff,
\* BackoffFactor >= 1, JitterFactor in [0, 1]) and every jitter draw.
C11_BackoffNonNegative ==
    (fn = "calculateBackoff" /\ pc = "returned") => out >= 0

(***************************************************************************)
(* Properties of the errors Do and DoWithNotify return (under Spec).       *)
(***************************************************************************)
\* the call has returned an error
Failed == Running /\ pc = "done" /\ ~IsSuccess(ret)

\* C12 as stated: every error Do / DoWithNotify returns (not retryable, retries
\* exceeded, timed out) wraps the error of the most recent invocation of the
\* operation, never an earlier one and never no error at all.
C12_WrapsLastError_Stated ==
    Failed => /\ Invocations >= 1
              /\ ret.err # OpNil
              /\ ret.err = results[Invocations]

\* C12, amended: with MaxRetries >= 1 every error Do / DoWithNotify returns
\* wraps the error of the most recent invocation of the operation; with
\* MaxRetries <= 0 the operation is never invoked and "retries exceeded" wraps
\* nil.
C12_WrapsLastError ==
    /\ (Failed /\ config.MaxRetries >= 1)
          => /\ Invocations >= 1
             /\ ret.err # OpNil
             /\ ret.err = results[Invocations]
    /\ (Failed /\ config.MaxRetries <= 0) => (Invocations = 0 /\ ret.err = OpNil)

C12_Witness ==
    /\ Failed
    /\ IsCancelled(ret)
    /\ results = <<OpMarked, OpTimeout>>
    /\ ret.err = OpTimeout

C15_NotifyOncePerWait ==
    Running =>
        /\ (fn = "DoWithNotify" /\ notify) =>
              /\ Len(notifyLog) = Len(waits)
              /\ \A k \in 1..Len(notifyLog) :
                    /\ notifyLog[k] = <<results[k], waits[k]>>
                    /\ RetryableFailure(results[k])
        /\ ~(fn = "DoWithNotify" /\ notify) => notifyLog = <<>>
        /\ InWait => Len(waits) = Invocations
        /\ ~InWait => Len(waits) \in {Invocations - 1, Invocations}
        /\ (pc = "done" /\ (IsSuccess(ret) \/ IsNonRetryable(ret)))
              => Len(waits) = Invocations - 1

C15_Witness ==
    /\ fn = "DoWithNotify" /\ notify
    /\ pc = "done" /\ IsSuccess(ret)
    /\ results = <<OpMarked, OpTimeout, OpNil>>
    /\ waits = <<1, 2>>
    /\ notifyLog = <<<<OpMarked, 1>>, <<OpTimeout, 2>>>>

C18_EveryCallReturns == <>(pc = "done" /\ ret # NoReturn)

C18_Witness ==
    /\ fn = "DoWithNotify" /\ pc = "done"
    /\ ~cancelled
    /\ config.MaxRetries = 3
    /\ Len(waits) = 3
    /\ timerFired
    /\ IsExhausted(ret)

(***************************************************************************)
(* Properties of calls with no attempt to make (under Spec).               *)
(***************************************************************************)
\* C19: with MaxRetries <= 0 Do / DoWithNotify never invokes the operation,
\* never notifies and never waits, and returns "retries exceeded" wrapping no
\* error (nil), whether the context has fired or not.
C19_NoAttemptNoError ==
    (Running /\ config.MaxRetries <= 0) =>
        /\ results = <<>> /\ waits = <<>> /\ notifyLog = <<>>
        /\ pc \in {"loop", "done"}
        /\ pc = "done" => ret = Return("retries exceeded", OpNil)

C19_Witness ==
    /\ fn = "DoWithNotify" /\ notify /\ pc = "done"
    /\ config.MaxRetries = 0
    /\ cancelled
    /\ Invocations = 0
    /\ ret = Return("retries exceeded", OpNil)

(***************************************************************************)
(* Equivalence of Do and DoWithNotify with a nil callback (under SpecPair).*)
(***************************************************************************)
\* C20: Do(ctx, config, op) and DoWithNotify(ctx, config, op, nil), given the
\* same config, the same results of the operation, the same jitter draws and
\* the same timer and context events, are at every moment at the same point
\* with the same invocations and the same waits, notify nothing, and return the
\* same outcome wrapping the same error.
C20_DoEqualsDoWithNotifyNil ==
    (fn = "Do" /\ twin # NoTwin) =>
        /\ twin.pc = pc
        /\ twin.results = results
        /\ twin.waits = waits
        /\ twin.ret = ret
        /\ twin.attempt = attempt
        /\ twin.lastErr = lastErr
        /\ twin.notifyLog = <<>> /\ notifyLog = <<>>

C20_Witness ==
    /\ fn = "Do" /\ twin # NoTwin
    /\ pc = "done" /\ twin.pc = "done"
    /\ twin.results = <<OpMarked, OpTimeout, OpFatal>>
    /\ twin.waits = <<1, 2>>
    /\ twin.ret = Return("not retryable error", OpFatal)
    /\ ret = twin.ret

====
